---- MODULE Spec2Model ----
(***************************************************************************)
(* heox: hybrid Monte-Carlo over a lattice.  State (state.py), Protocol    *)
(* (protocol.py), AtomSwapMonteCarlo (mc/mc.py), OnLatticeGCMC             *)
(* (mc/gcmc.py), Pipeline (pipeline.py), the energy evaluator              *)
(* (utilities/potential_energy.py).                                        *)
(*                                                                         *)
(* Conventions.  Python's 0-based site index i is site i+1 here.  The      *)
(* optional cached energy is a sequence: <<>> is None, <<e>> is e.  An     *)
(* exception that leaves a call is recorded in err; the objects keep the   *)
(* fields the call had written before it raised, and the caller may call   *)
(* again.  Random draws and the evaluator's failures are nondeterministic  *)
(* choices.  Protocol and Pipeline objects carry the fields their __init__ *)
(* bodies assign; what the constructors themselves raise is modelled by    *)
(* the Construct operators.                                                *)
(***************************************************************************)
EXTENDS Integers, Sequences, FiniteSets, TLC

VARIABLES
    types,        \* state.system["types"]
    positions,    \* state.system["positions"]
    energy,       \* state.properties["energy"]
    step,         \* state.properties["step"]
    global_step,  \* state.properties["global_step"]
    modules,      \* Pipeline.modules: the protocol objects, in list order
    pc,           \* position of Pipeline.run in its loops
    err,          \* exception raised by the most recent call, or "none"
    last,         \* history: the most recent step call and its outcome
    ncalls,       \* history: number of step calls made to each protocol
    raised,       \* history: some call has raised an exception
    budget,       \* calls the caller may still make (bounds the behaviours)
    log_options,  \* Pipeline.log_options (<<>> for None or an empty list)
    loginterval,  \* Pipeline.loginterval
    logs,         \* history: the log records emitted, in order
    built,        \* history: the most recent Pipeline(...) call and its outcome
    trajectory,   \* Pipeline.trajectory (<<>> for None, <<path>> for a path)
    file,         \* the frames of the file at TrajectoryPath, in file order
    vacated       \* history: per protocol, the sites of its accepted removals
                  \* that no accepted insertion of its own has refilled

vars == <<types, positions, energy, step, global_step, modules, pc, err, last,
          ncalls, raised, budget, log_options, loginterval, logs, built,
          trajectory, file, vacated>>

logvars == <<log_options, loginterval, logs, built, trajectory, file>>

\* ------------------------------------------------------------------ bounds
NumSites == 3
MaxCalls == 3
MaxRun == 2
MaxEvery == 2
MaxPer == 2
MaxLogInterval == 2
MaxVacancyCalls == 5

\* --------------------------------------------------------------- constants
num_attepts == 100

\* atoms.get_temperature() of a structure without momenta
Temperature == 0

Labels == {"Mg", "Zn", "O", "X"}
None == <<>>
Some(e) == <<e>>

\* ------------------------------------------------------ the energy evaluator
\* The injected calculator: a fixed nearest-neighbour pair energy on the chain
\* of sites.  Sites labelled "X" are deleted before the evaluation, so a pair
\* with a vacant site contributes nothing.
Wt(a) == CASE a = "Mg" -> 1 [] a = "Zn" -> 2 [] a = "O" -> -1 [] OTHER -> 0

PairEnergy(a, b) == IF a = "X" \/ b = "X" THEN 0 ELSE Wt(a) * Wt(b)

RECURSIVE ChainEnergy(_, _)
ChainEnergy(T, i) ==
    IF i >= Len(T) THEN 0 ELSE PairEnergy(T[i], T[i + 1]) + ChainEnergy(T, i + 1)

NumVacant(T) == Cardinality({i \in DOMAIN T : T[i] = "X"})

\* calculate_potential_energy: the energy of the stored configuration; the
\* call may raise (ok = FALSE) instead of returning.
calculate_potential_energy(T) ==
    {[ok |-> TRUE, e |-> ChainEnergy(T, 1)], [ok |-> FALSE, e |-> 0]}

\* calculate_relaxed_potential_energy: the energy after LBFGS has relaxed a
\* copy of the structure; the atoms next to a vacancy relax, which lowers the
\* energy.  The state's positions are not written back.
calculate_relaxed_potential_energy(T) ==
    {[ok |-> TRUE, e |-> ChainEnergy(T, 1) - NumVacant(T)], [ok |-> FALSE, e |-> 0]}

\* ---------------------------------------------------------------- outcomes
\* what a step call leaves: the state's types and cached energy, the protocol
\* object, the exception (or "none"), the kind of attempt, how it ended, and
\* ev, the configurations the call handed to the evaluator, in call order
Outcome(T, En, M, e, op, o, ev) ==
    [types |-> T, energy |-> En, mod |-> M, err |-> e, op |-> op, out |-> o,
     evals |-> ev, site |-> 0]

\* the same outcome, for an attempt that had chosen the site index
AtSite(o, index) == [o EXCEPT !.site = index]

\* the evaluator call that fills an absent cached energy: it is made on the
\* pre-move configuration, and only when the cached energy is None
IniEv(En, T) == IF En = None THEN <<[cfg |-> T, tentative |-> FALSE]>> ELSE <<>>

\* the evaluator call on the tentative configuration written to the state
TentEv(attempt_types) == <<[cfg |-> attempt_types, tentative |-> TRUE]>>

\* mutant of Revert: the rejected branch restores the energy and leaves the
\* tentative types in the state
Revert_KeepsAttempt(T, attempt_types, initial_energy) ==
    [types |-> attempt_types, energy |-> Some(initial_energy)]

\* the rejected branch, entered with attempt_types in the state:
\* state.update(system={"types": types}, properties={"energy": initial_energy})
Revert(T, attempt_types, initial_energy) ==
    [types |-> T, energy |-> Some(initial_energy)]

\* the accepted branch: the tentative types stay, and
\* state.update(properties={"energy": final_energy})
Commit(attempt_types, final_energy) ==
    [types |-> attempt_types, energy |-> Some(final_energy)]

\* initial_energy = state.get("properties.energy"), computed when None
InitialEnergy(En, T) ==
    IF En = None THEN calculate_potential_energy(T) ELSE {[ok |-> TRUE, e |-> En[1]]}

\* ------------------------------------------------------ AtomSwapMonteCarlo
\* _metropolis_criterion: the set of possible decisions for delta_energy.
\* exp(0) = 1 and the draw is in [0, 1), so delta_energy = 0 is accepted too.
SwapMetropolis_StrictOnly(delta_energy) ==
    IF delta_energy < 0 THEN {TRUE} ELSE {TRUE, FALSE}

SwapMetropolis(delta_energy) ==
    IF delta_energy < 0 THEN {TRUE}
    ELSE IF delta_energy = 0 THEN {TRUE} ELSE {TRUE, FALSE}

AllowedSwap(M, T) == {i \in DOMAIN T : T[i] \in M.types}

\* mutant of SearchPair: the loop also breaks with a pair of equal labels
SearchPair_AnyPair(T, allowed, n) ==
    {[found |-> TRUE, i |-> pr[1], j |-> pr[2]] :
        pr \in {q \in allowed \X allowed : q[1] # q[2] /\ n > 0}}
    \cup (IF n = 0 THEN {[found |-> FALSE, i |-> 0, j |-> 0]} ELSE {})

\* The while loop of _attempt_atomswap, started with n attempts: it breaks with
\* any pair of distinct eligible sites whose labels differ, at the first draw
\* or after draws of equal-label pairs; it ends with num_attepts = 0 ("not
\* found") when all n draws gave equal-label pairs.
SearchPair(T, allowed, n) ==
    LET pairs == {pr \in allowed \X allowed : pr[1] # pr[2]}
    IN  {[found |-> TRUE, i |-> pr[1], j |-> pr[2]] :
            pr \in {q \in pairs : n > 0 /\ T[q[1]] # T[q[2]]}}
        \cup (IF n = 0 \/ \E q \in pairs : T[q[1]] = T[q[2]]
              THEN {[found |-> FALSE, i |-> 0, j |-> 0]} ELSE {})

\* mutant of Exhausted: the exhausted search fills the absent cached energy
Exhausted_FillsEnergy(M, T, En) ==
    Outcome(T, Some(ChainEnergy(T, 1)), [M EXCEPT !.rejected_swaps = @ + 1],
            "none", "swap", "exhausted", IniEv(En, T))

\* if num_attepts == 0: self.rejected_swaps += 1; return
Exhausted(M, T, En) ==
    Outcome(T, En, [M EXCEPT !.rejected_swaps = @ + 1], "none", "swap", "exhausted", <<>>)

\* attempt_types = types.copy() with the two labels exchanged
SwapLabels_CopiesOne(T, i, j) == [T EXCEPT ![i] = T[j]]

SwapLabels(T, i, j) == [T EXCEPT ![i] = T[j], ![j] = T[i]]

\* Steps 2 and 3 of _attempt_atomswap for the chosen pair.
SwapMove(M, T, En, i, j) ==
    UNION {
        IF ~ini.ok
        THEN {Outcome(T, En, M, "EvaluatorError", "swap", "raised", IniEv(En, T))}
        ELSE LET attempt_types == SwapLabels(T, i, j)
             IN UNION {
                 IF ~fin.ok
                 THEN {Outcome(attempt_types, En, M, "EvaluatorError", "swap", "raised",
                               IniEv(En, T) \o TentEv(attempt_types))}
                 ELSE {IF acc
                       THEN Outcome(Commit(attempt_types, fin.e).types,
                                    Commit(attempt_types, fin.e).energy,
                                    [M EXCEPT !.accepted_swaps = @ + 1],
                                    "none", "swap", "accepted",
                                    IniEv(En, T) \o TentEv(attempt_types))
                       ELSE IF attempt_types = T
                       THEN Outcome(attempt_types, En, M, "AssertionError", "swap", "raised",
                                    IniEv(En, T) \o TentEv(attempt_types))
                       ELSE Outcome(Revert(T, attempt_types, ini.e).types,
                                    Revert(T, attempt_types, ini.e).energy,
                                    [M EXCEPT !.rejected_swaps = @ + 1],
                                    "none", "swap", "rejected",
                                    IniEv(En, T) \o TentEv(attempt_types))
                       : acc \in SwapMetropolis(fin.e - ini.e)}
                 : fin \in calculate_potential_energy(attempt_types)}
        : ini \in InitialEnergy(En, T)}

attempt_atomswap(M, T, En) ==
    LET allowed == AllowedSwap(M, T)
    IN  IF Cardinality(allowed) < 2
        THEN \* np.random.choice(..., size=2, replace=False) on fewer than 2
             {Outcome(T, En, M, "ValueError", "swap", "raised", <<>>)}
        ELSE UNION {
                IF ~s.found
                THEN {Exhausted(M, T, En)}
                ELSE SwapMove(M, T, En, s.i, s.j)
                : s \in SearchPair(T, allowed, num_attepts)}

\* AtomSwapMonteCarlo.step: the attempt, num_invokes += 1, then
\* state.update(modules=...), a keyword State.update does not take.
SwapStep(M, T, En) ==
    {IF o.err # "none" THEN o
     ELSE [o EXCEPT !.mod.num_invokes = @ + 1, !.err = "TypeError"]
     : o \in attempt_atomswap(M, T, En)}

\* ------------------------------------------------------------ OnLatticeGCMC
\* _metropolis_criterion: exp(-(delta_energy - chemical_potential) / T) is at
\* least 1 when delta_energy <= chemical_potential, and the draw is below 1.
GcmcMetropolis(delta_energy, chemical_potential) ==
    IF delta_energy - chemical_potential <= 0 THEN {TRUE} ELSE {TRUE, FALSE}

\* the evaluator entry point use_relaxed_energies selects
FinalEnergy(M, T) ==
    IF M.use_relaxed_energies
    THEN calculate_relaxed_potential_energy(T)
    ELSE calculate_potential_energy(T)

Range(s) == {s[k] : k \in DOMAIN s}

\* list.remove(x): drops the first occurrence of x
RECURSIVE ListRemove(_, _)
ListRemove(s, x) ==
    IF s = <<>> THEN <<>>
    ELSE IF Head(s) = x THEN Tail(s) ELSE <<Head(s)>> \o ListRemove(Tail(s), x)

\* mutant of RejectNoSite: the early return counts nothing
RejectNoSite_Uncounted(M, T, En, op) ==
    Outcome(T, En, M, "none", op, "noeligible", <<>>)

\* if not allowed_indices: the rejected counter of the attempt += 1; return
RejectNoSite(M, T, En, op) ==
    Outcome(T, En,
            IF op = "removal" THEN [M EXCEPT !.rejected_removals = @ + 1]
                              ELSE [M EXCEPT !.rejected_insertions = @ + 1],
            "none", op, "noeligible", <<>>)

\* Steps 2 and 3 of _attempt_removal for the chosen type and site.
RemovalMove(M, T, En, atomic_type, index) ==
    UNION {
        IF ~ini.ok
        THEN {Outcome(T, En, M, "EvaluatorError", "removal", "raised", IniEv(En, T))}
        ELSE LET attempt_types == [T EXCEPT ![index] = "X"]
             IN UNION {
                 IF ~fin.ok
                 THEN {Outcome(attempt_types, En, M, "EvaluatorError", "removal", "raised",
                               IniEv(En, T) \o TentEv(attempt_types))}
                 ELSE {IF acc
                       THEN Outcome(Commit(attempt_types, fin.e).types,
                                    Commit(attempt_types, fin.e).energy,
                                    [M EXCEPT !.removed_indices = Append(@, index),
                                              !.accepted_removals = @ + 1],
                                    "none", "removal", "accepted",
                                    IniEv(En, T) \o TentEv(attempt_types))
                       ELSE IF attempt_types = T
                       THEN Outcome(attempt_types, En, M, "AssertionError", "removal", "raised",
                                    IniEv(En, T) \o TentEv(attempt_types))
                       ELSE Outcome(Revert(T, attempt_types, ini.e).types,
                                    Revert(T, attempt_types, ini.e).energy,
                                    [M EXCEPT !.rejected_removals = @ + 1],
                                    "none", "removal", "rejected",
                                    IniEv(En, T) \o TentEv(attempt_types))
                       : acc \in GcmcMetropolis(fin.e - ini.e,
                                                M.chemical_potentials[atomic_type])}
                 : fin \in FinalEnergy(M, attempt_types)}
        : ini \in InitialEnergy(En, T)}

attempt_removal(M, T, En) ==
    UNION {
        LET allowed_indices == {i \in DOMAIN T : T[i] = atomic_type}
        IN  IF allowed_indices = {}
            THEN {RejectNoSite(M, T, En, "removal")}
            ELSE UNION {{AtSite(o, index) :
                            o \in RemovalMove(M, T, En, atomic_type, index)} :
                           index \in allowed_indices}
        : atomic_type \in M.types}

\* Steps 2 and 3 of _attempt_insertion for the chosen type and site.
InsertionMove(M, T, En, atomic_type, index) ==
    UNION {
        IF ~ini.ok
        THEN {Outcome(T, En, M, "EvaluatorError", "insertion", "raised", IniEv(En, T))}
        ELSE LET attempt_types == [T EXCEPT ![index] = atomic_type]
             IN UNION {
                 IF ~fin.ok
                 THEN {Outcome(attempt_types, En, M, "EvaluatorError", "insertion", "raised",
                               IniEv(En, T) \o TentEv(attempt_types))}
                 ELSE {IF acc
                       THEN Outcome(Commit(attempt_types, fin.e).types,
                                    Commit(attempt_types, fin.e).energy,
                                    [M EXCEPT !.removed_indices = ListRemove(@, index),
                                              !.accepted_insertions = @ + 1],
                                    "none", "insertion", "accepted",
                                    IniEv(En, T) \o TentEv(attempt_types))
                       ELSE IF attempt_types = T
                       THEN Outcome(attempt_types, En, M, "AssertionError", "insertion", "raised",
                                    IniEv(En, T) \o TentEv(attempt_types))
                       ELSE Outcome(Revert(T, attempt_types, ini.e).types,
                                    Revert(T, attempt_types, ini.e).energy,
                                    [M EXCEPT !.rejected_insertions = @ + 1],
                                    "none", "insertion", "rejected",
                                    IniEv(En, T) \o TentEv(attempt_types))
                       : acc \in GcmcMetropolis(fin.e - ini.e,
                                                M.chemical_potentials[atomic_type])}
                 : fin \in FinalEnergy(M, attempt_types)}
        : ini \in InitialEnergy(En, T)}

attempt_insertion(M, T, En) ==
    UNION {
        LET allowed_indices == M.removed_indices
        IN  IF allowed_indices = <<>>
            THEN {RejectNoSite(M, T, En, "insertion")}
            ELSE UNION {{AtSite(o, index) :
                            o \in InsertionMove(M, T, En, atomic_type, index)} :
                           index \in Range(allowed_indices)}
        : atomic_type \in M.types}

\* OnLatticeGCMC.step: one of the two attempts, then num_invokes += 1.
GcmcStep(M, T, En) ==
    {IF o.err # "none" THEN o ELSE [o EXCEPT !.mod.num_invokes = @ + 1]
     : o \in attempt_insertion(M, T, En) \cup attempt_removal(M, T, En)}

\* protocol.step(state), by the class of the protocol
ProtocolStep(M, T, En) ==
    IF M.kind = "swap" THEN SwapStep(M, T, En) ELSE GcmcStep(M, T, En)

\* ------------------------------------------------------------ construction
\* The fields Protocol.__init__ and the subclass __init__ bodies assign.
AtomSwapMonteCarlo(tys, k, m) ==
    [kind |-> "swap", types |-> tys,
     chemical_potentials |-> [t \in tys |-> 0], use_relaxed_energies |-> FALSE,
     invoke_every |-> k, steps_per_invoke |-> m, num_invokes |-> 0,
     accepted_swaps |-> 0, rejected_swaps |-> 0,
     accepted_insertions |-> 0, rejected_insertions |-> 0,
     accepted_removals |-> 0, rejected_removals |-> 0,
     removed_indices |-> <<>>]

OnLatticeGCMC(mu, relaxed, k, m) ==
    [kind |-> "gcmc", types |-> DOMAIN mu,
     chemical_potentials |-> mu, use_relaxed_energies |-> relaxed,
     invoke_every |-> k, steps_per_invoke |-> m, num_invokes |-> 0,
     accepted_swaps |-> 0, rejected_swaps |-> 0,
     accepted_insertions |-> 0, rejected_insertions |-> 0,
     accepted_removals |-> 0, rejected_removals |-> 0,
     removed_indices |-> <<>>]

\* mutant of InitializeError: the swap protocol does not add "X"
InitializeError_NoVacancy(M, T) ==
    IF M.types \subseteq Range(T) THEN "none" ELSE "ValueError"

\* protocol.initialize(state): the exception it raises, or "none"
InitializeError(M, T) ==
    IF M.kind = "swap"
    THEN IF M.types \subseteq (Range(T) \cup {"X"}) THEN "none" ELSE "ValueError"
    ELSE IF M.types \subseteq Range(T) THEN "none" ELSE "ValueError"

\* State.from_atoms: the energy is computed when a calculator is attached
FromAtomsEnergies(T) == {None, Some(ChainEnergy(T, 1))}

\* pc: at is the position of run ("idle": not running), steps its argument, i
\* its loop variable, m the module whose evolve is next or running, left the
\* step calls that evolve still has to make, start the global_step run found,
\* done the modules whose evolve has returned in this outer iteration
Idle == [at |-> "idle", steps |-> 0, i |-> 0, m |-> 0, left |-> 0, start |-> 0,
         done |-> {}]

NoBuild ==
    [called |-> FALSE, opts |-> <<>>, traj |-> <<>>, err |-> "none", inits |-> <<>>]

NoCall ==
    [p |-> 0, op |-> "none", out |-> "none", err |-> "none", evals |-> <<>>,
     site |-> 0, arg |-> ""]

\* the module lists of the test: swap over the cations, swap over the anion
\* and the vacancy, grand-canonical over the anion
CationSwap(k, m) == AtomSwapMonteCarlo({"Mg", "Zn"}, k, m)
VacancySwap(k, m) == AtomSwapMonteCarlo({"O", "X"}, k, m)
AnionGcmc(relaxed, k, m) == OnLatticeGCMC("O" :> -1, relaxed, k, m)

TestModules == <<CationSwap(1, 1), VacancySwap(1, 1), AnionGcmc(FALSE, 1, 1)>>

ModuleLists ==
    {<<CationSwap(1, 1)>>, <<VacancySwap(1, 1)>>,
     <<AnionGcmc(FALSE, 1, 1)>>, <<AnionGcmc(TRUE, 1, 1)>>,
     <<VacancySwap(1, 1), AnionGcmc(FALSE, 1, 1)>>,
     TestModules}

InitCommon ==
    /\ positions = [i \in DOMAIN types |-> i]
    /\ step = 0
    /\ global_step = 0
    /\ pc = Idle
    /\ err = "none"
    /\ last = NoCall
    /\ ncalls = [p \in DOMAIN modules |-> 0]
    /\ raised = FALSE
    /\ budget = MaxCalls
    /\ logs = <<>>
    /\ built = NoBuild
    /\ vacated = [p \in DOMAIN modules |-> {}]

Init ==
    /\ log_options = <<>>
    /\ loginterval = 1
    /\ trajectory = None
    /\ file = <<>>
    /\ types \in [1..NumSites -> Labels]
    /\ energy \in FromAtomsEnergies(types)
    /\ modules \in ModuleLists
    /\ \A p \in DOMAIN modules : InitializeError(modules[p], types) = "none"
    /\ InitCommon

\* ------------------------------------------------------------------ actions
ApplyStep(p, o) ==
    /\ types' = o.types
    /\ energy' = o.energy
    /\ modules' = [modules EXCEPT ![p] = o.mod]
    /\ last' = [p |-> p, op |-> o.op, out |-> o.out, err |-> o.err,
                evals |-> o.evals, site |-> o.site, arg |-> ""]
    /\ vacated' = [vacated EXCEPT ![p] =
                      IF o.out = "accepted" /\ o.op = "removal" THEN @ \cup {o.site}
                      ELSE IF o.out = "accepted" /\ o.op = "insertion"
                      THEN @ \ {o.site}
                      ELSE @]
    /\ ncalls' = [ncalls EXCEPT ![p] = @ + 1]
    /\ raised' = (raised \/ o.err # "none")
    /\ UNCHANGED positions

\* the caller calls modules[p].step(state)
StepCall(p) ==
    /\ pc.at = "idle"
    /\ budget > 0
    /\ budget' = budget - 1
    /\ \E o \in ProtocolStep(modules[p], types, energy) :
          /\ ApplyStep(p, o)
          /\ err' = o.err
    /\ UNCHANGED <<step, global_step, pc, logvars>>

\* ------------------------------------------------------------ Pipeline.run
\* where run continues after modules[pc.m].evolve(state) has returned: the
\* next module of the list, or the logging that follows the last one
AfterEvolve ==
    IF pc.m < Len(modules)
    THEN [pc EXCEPT !.at = "evolve", !.m = @ + 1, !.left = 0,
                    !.done = @ \cup {pc.m}]
    ELSE [pc EXCEPT !.at = "log", !.left = 0, !.done = @ \cup {pc.m}]

\* the caller calls pipeline.run(n)
RunCall(n) ==
    /\ pc.at = "idle"
    /\ budget > 0
    /\ global_step + n <= MaxRun
    /\ budget' = budget - 1
    /\ err' = "none"
    /\ pc' = IF n = 0 THEN Idle
             ELSE IF Len(modules) = 0
             THEN [at |-> "log", steps |-> n, i |-> 0, m |-> 0, left |-> 0,
                   start |-> global_step, done |-> {}]
             ELSE [at |-> "evolve", steps |-> n, i |-> 0, m |-> 1, left |-> 0,
                   start |-> global_step, done |-> {}]
    /\ UNCHANGED <<types, positions, energy, step, global_step, modules, last, ncalls,
                   raised, logvars, vacated>>

\* Protocol.evolve, the condition of its if statement
Fires_OffByOne(M) == (step + 1) % M.invoke_every = 0

Fires(M) == step % M.invoke_every = 0

\* mutant of NextStep: evolve leaves the counter alone
NextStep_Same(s) == s

\* Protocol.evolve, its last statement: state.properties["step"] += 1
NextStep(s) == s + 1

\* mutant of EvolveSkip: the evolve that does not fire counts an invocation
EvolveSkip_Counts ==
    /\ pc.at = "evolve"
    /\ pc.left = 0
    /\ ~Fires(modules[pc.m])
    /\ step' = NextStep(step)
    /\ modules' = [modules EXCEPT ![pc.m].num_invokes = @ + 1]
    /\ pc' = AfterEvolve
    /\ UNCHANGED <<types, positions, energy, global_step, err, last,
                   ncalls, raised, budget, logvars, vacated>>

\* Protocol.evolve when the protocol does not fire: only the step counter moves
EvolveSkip ==
    /\ pc.at = "evolve"
    /\ pc.left = 0
    /\ ~Fires(modules[pc.m])
    /\ step' = NextStep(step)
    /\ pc' = AfterEvolve
    /\ UNCHANGED <<types, positions, energy, global_step, modules, err, last,
                   ncalls, raised, budget, logvars, vacated>>

\* Protocol.evolve when the protocol fires: one pass of its for loop, a call of
\* step; the last pass is followed by properties["step"] += 1.  An exception
\* of step leaves evolve and run at once.
EvolveStep ==
    /\ pc.at = "evolve"
    /\ pc.left > 0 \/ Fires(modules[pc.m])
    /\ \E o \in ProtocolStep(modules[pc.m], types, energy) :
          /\ ApplyStep(pc.m, o)
          /\ IF o.err # "none"
             THEN /\ err' = o.err
                  /\ pc' = Idle
                  /\ UNCHANGED step
             ELSE LET left == (IF pc.left > 0 THEN pc.left
                               ELSE modules[pc.m].steps_per_invoke) - 1
                  IN  IF left > 0
                      THEN /\ pc' = [pc EXCEPT !.left = left]
                           /\ UNCHANGED <<step, err>>
                      ELSE /\ step' = NextStep(step)
                           /\ pc' = AfterEvolve
                           /\ UNCHANGED err
    /\ UNCHANGED <<global_step, budget, logvars>>

\* -------------------------------------------------------------- State.get
\* option.split("."): the parts of the field names used here
Split(option) ==
    CASE option = "properties.global_step" -> <<"properties", "global_step">>
      [] option = "properties.step" -> <<"properties", "step">>
      [] option = "properties.energy" -> <<"properties", "energy">>
      [] option = "properties.temperature" -> <<"properties", "temperature">>
      [] option = "system.types" -> <<"system", "types">>
      [] option = "system.positions" -> <<"system", "positions">>
      [] option = "properties.pressure" -> <<"properties", "pressure">>
      [] option = "system.mass" -> <<"system", "mass">>
      [] option = "module.name" -> <<"module", "name">>
      [] option = "module.swap.accepted_swaps" -> <<"module", "swap", "accepted_swaps">>
      [] option = "module.swap.rejected_swaps" -> <<"module", "swap", "rejected_swaps">>
      [] OTHER -> <<option>>

\* state.system and state.properties, the modelled fields
System == [types |-> types, positions |-> positions]

Properties ==
    [global_step |-> global_step, step |-> step, temperature |-> Temperature,
     energy |-> energy]

\* mutant of StateGet: an absent field reads as None
StateGet_AbsentIsNone(option) ==
    LET parts == Split(option)
        bad == [ok |-> FALSE, v |-> "ValueError"]
    IN  IF Len(parts) # 2 THEN bad
        ELSE IF parts[1] \notin {"system", "properties"} THEN bad
        ELSE IF parts[1] = "system"
        THEN IF parts[2] \notin DOMAIN System THEN [ok |-> TRUE, v |-> None]
             ELSE [ok |-> TRUE, v |-> System[parts[2]]]
        ELSE IF parts[2] \notin DOMAIN Properties THEN [ok |-> TRUE, v |-> None]
             ELSE [ok |-> TRUE, v |-> Properties[parts[2]]]

\* State.get(option): the stored value, or ValueError when the option does not
\* unpack into two parts, names no namespace or names an absent field
StateGet(option) ==
    LET parts == Split(option)
        bad == [ok |-> FALSE, v |-> "ValueError"]
    IN  IF Len(parts) # 2 THEN bad
        ELSE IF parts[1] \notin {"system", "properties"} THEN bad
        ELSE IF parts[1] = "system"
        THEN IF parts[2] \notin DOMAIN System THEN bad
             ELSE [ok |-> TRUE, v |-> System[parts[2]]]
        ELSE IF parts[2] \notin DOMAIN Properties THEN bad
             ELSE [ok |-> TRUE, v |-> Properties[parts[2]]]

\* ------------------------------------------------------------ Pipeline.log
\* the record log() emits: str() of state.get(opt) for each configured field
LogLine(opts) == [k \in DOMAIN opts |-> ToString(StateGet(opts[k]).v)]

\* the exception log() raises, or "none"
LogError(opts) ==
    IF \E k \in DOMAIN opts : ~StateGet(opts[k]).ok THEN "ValueError" ELSE "none"

\* Pipeline.run, the condition of its if statement: self.log_options and
\* step % self.loginterval == 0, step being the loop variable of run
LogDue == log_options # <<>> /\ pc.i % loginterval = 0

\* the path a caller configures for the trajectory
TrajectoryPath == "test.xyz"

\* State.get_atoms: the structure a frame holds
Frame == [types |-> types, positions |-> positions, step |-> step, energy |-> energy]

\* mutant of WriteTrajectory: the write replaces the file by the new frame
WriteTrajectory_Overwrites(f) == <<Frame>>

\* State.write_trajectory: atoms.write(filename, append=True)
WriteTrajectory(f) == Append(f, Frame)

\* mutant of TrajectoryDue: log never writes a frame
TrajectoryDue_Never == FALSE

\* Pipeline.log: if self.trajectory is not None
TrajectoryDue == trajectory # None

\* mutant of NextGlobalStep: the outer counter advances by two
NextGlobalStep_Twice(g) == g + 2

\* Pipeline.run: self.state.properties["global_step"] += 1
NextGlobalStep(g) == g + 1

\* the end of an outer iteration of run: the log record when it is due, then
\* global_step += 1, then the next iteration or the return.  An exception of
\* log leaves run at once.
EndOuter ==
    /\ pc.at = "log"
    /\ IF LogDue /\ LogError(log_options) # "none"
       THEN /\ err' = LogError(log_options)
            /\ raised' = TRUE
            /\ pc' = Idle
            /\ UNCHANGED <<global_step, logs, file>>
       ELSE /\ logs' = IF LogDue
                       THEN Append(logs, [at |-> global_step,
                                          line |-> LogLine(log_options)])
                       ELSE logs
            /\ file' = IF LogDue /\ TrajectoryDue THEN WriteTrajectory(file) ELSE file
            /\ global_step' = NextGlobalStep(global_step)
            /\ pc' = IF pc.i + 1 < pc.steps
                     THEN [pc EXCEPT !.at = IF Len(modules) = 0 THEN "log" ELSE "evolve",
                                     !.i = @ + 1,
                                     !.m = IF Len(modules) = 0 THEN 0 ELSE 1,
                                     !.done = {}]
                     ELSE Idle
            /\ UNCHANGED <<err, raised>>
    /\ UNCHANGED <<types, positions, energy, step, modules, last, ncalls, budget,
                   log_options, loginterval, built, trajectory, vacated>>

\* ------------------------------------------------------------ constructors
\* AtomSwapMonteCarlo.__init__: it passes name, invoke_every and
\* steps_per_invoke to Protocol.__init__, which takes invoke_every and
\* steps_per_invoke only.
AtomSwapInitError == "TypeError"

BASE_LOGGING_OPTIONS_DICT ==
    {"properties.global_step", "properties.step", "properties.energy",
     "properties.temperature"}

\* log_options_dict after the loop over an empty module list: the copy of
\* the base dictionary
LogOptionsDict(mods) == BASE_LOGGING_OPTIONS_DICT

\* Pipeline.initialize.  The loop over the modules: initialize(state), then
\* _get_log_options(), which OnLatticeGCMC does not define and which reads
\* self.name, an attribute no constructor sets, in AtomSwapMonteCarlo.  Then,
\* with log options, _print_logging_header, which looks every option up in
\* BASE_LOGGING_OPTIONS_DICT, and the validation against log_options_dict
\* (the base options when the module list is empty).
\* inits lists the modules whose initialize(state) the call has called.
PipelineInitialize(mods, T, opts) ==
    IF mods # <<>>
    THEN IF InitializeError(mods[1], T) # "none"
         THEN [modules |-> mods, err |-> InitializeError(mods[1], T), inits |-> <<1>>]
         ELSE [modules |-> [mods EXCEPT ![1].removed_indices =
                               IF mods[1].kind = "gcmc" THEN <<>> ELSE @],
               err |-> "AttributeError", inits |-> <<1>>]
    ELSE IF opts # <<>> /\ \E k \in DOMAIN opts : opts[k] \notin BASE_LOGGING_OPTIONS_DICT
    THEN [modules |-> mods, err |-> "KeyError", inits |-> <<>>]
    ELSE IF opts # <<>> /\ \E k \in DOMAIN opts : opts[k] \notin LogOptionsDict(mods)
    THEN [modules |-> mods, err |-> "ValueError", inits |-> <<>>]
    ELSE [modules |-> mods, err |-> "none", inits |-> <<>>]

\* Pipeline.initialize, its last statement: with a trajectory path, the file
\* that exists at the path is removed
RemoveTrajectory(traj, f) == IF traj # None THEN <<>> ELSE f

\* the objects are constructed before the pipeline runs: no evolve call has
\* been made on the state yet
NotStarted == step = 0 /\ global_step = 0

\* the caller calls AtomSwapMonteCarlo(...)
AtomSwapConstruct ==
    /\ pc.at = "idle"
    /\ NotStarted
    /\ budget > 0
    /\ budget' = budget - 1
    /\ err' = AtomSwapInitError
    /\ raised' = (raised \/ AtomSwapInitError # "none")
    /\ UNCHANGED <<types, positions, energy, step, global_step, modules, pc, last,
                   ncalls, logvars, vacated>>

\* the log options a caller passes to Pipeline(...): none, base fields, an
\* unknown name, a counter of the swap protocol
ConstructOptions ==
    {<<>>, <<"properties.step", "properties.energy">>, <<"bogus">>,
     <<"module.swap.accepted_swaps">>}

\* the trajectory arguments a caller passes to Pipeline(...)
ConstructTrajectories == {None, Some(TrajectoryPath)}

\* the caller calls Pipeline(state, modules, log_options=opts, loginterval=li,
\* trajectory=traj) on the protocol objects; li = 0 stands for None.  The new
\* pipeline replaces the caller's pipeline when the constructor returns.
PipelineConstruct ==
    /\ pc.at = "idle"
    /\ NotStarted
    /\ budget > 0
    /\ budget' = budget - 1
    /\ \E opts \in ConstructOptions, li \in 0..MaxLogInterval,
          traj \in ConstructTrajectories :
          LET made == PipelineInitialize(modules, types, opts)
          IN  /\ modules' = made.modules
              /\ err' = made.err
              /\ raised' = (raised \/ made.err # "none")
              /\ built' = [called |-> TRUE, opts |-> opts, traj |-> traj,
                           err |-> made.err, inits |-> made.inits]
              /\ IF made.err = "none"
                 THEN /\ log_options' = opts
                      /\ loginterval' = IF li # 0 THEN li ELSE 1
                      /\ trajectory' = traj
                      /\ file' = RemoveTrajectory(traj, file)
                 ELSE UNCHANGED <<log_options, loginterval, trajectory, file>>
    /\ UNCHANGED <<types, positions, energy, step, global_step, pc, last, ncalls,
                   logs, vacated>>

Run ==
    \/ \E n \in 0..MaxRun : RunCall(n)
    \/ EvolveSkip
    \/ EvolveStep
    \/ EndOuter

\* ------------------------------------------------------- direct API calls
\* the caller calls modules[p].initialize(state): the validation of the
\* declared species; the grand-canonical protocol then empties its vacancy list
InitializeCall(p) ==
    /\ pc.at = "idle"
    /\ budget > 0
    /\ budget' = budget - 1
    /\ LET e == InitializeError(modules[p], types)
       IN  /\ err' = e
           /\ raised' = (raised \/ e # "none")
           /\ modules' = IF e = "none" /\ modules[p].kind = "gcmc"
                         THEN [modules EXCEPT ![p].removed_indices = <<>>]
                         ELSE modules
           /\ last' = [p |-> p, op |-> "initialize",
                       out |-> IF e = "none" THEN "returned" ELSE "raised",
                       err |-> e, evals |-> <<>>, site |-> 0, arg |-> ""]
    /\ UNCHANGED <<types, positions, energy, step, global_step, pc, ncalls,
                   logvars, vacated>>

\* the option strings the caller passes to State.get
GetOptions ==
    {"properties.global_step", "properties.step", "properties.energy",
     "properties.temperature", "system.types", "system.positions",
     "properties.pressure", "system.mass", "module.name",
     "module.swap.accepted_swaps", "energy"}

\* the caller calls state.get(option)
GetCall(option) ==
    /\ pc.at = "idle"
    /\ budget > 0
    /\ budget' = budget - 1
    /\ LET r == StateGet(option)
       IN  /\ err' = IF r.ok THEN "none" ELSE "ValueError"
           /\ raised' = (raised \/ ~r.ok)
           /\ last' = [p |-> 0, op |-> "get",
                       out |-> IF r.ok THEN ToString(r.v) ELSE "raised",
                       err |-> IF r.ok THEN "none" ELSE "ValueError",
                       evals |-> <<>>, site |-> 0, arg |-> option]
    /\ UNCHANGED <<types, positions, energy, step, global_step, modules, pc,
                   ncalls, logvars, vacated>>

\* ---------------------------------------------------------- specifications
\* Spec: any sequence of direct step calls on protocols sharing one state.
Next == \E p \in DOMAIN modules : StepCall(p)

Spec == Init /\ [][Next]_vars

\* SpecRun: Pipeline.run over module lists with every schedule, on a lattice
\* of one cation and one anion; at most MaxRun outer iterations in all.
SchedLattice == <<"Mg", "O">>

Schedules == (1..MaxEvery) \X (1..MaxPer)

\* one protocol with every schedule, and two protocols with every pair of
\* invoke_every and one step per invocation
RunModuleLists ==
    {<<AnionGcmc(FALSE, a[1], a[2])>> : a \in Schedules}
    \cup {<<AnionGcmc(FALSE, k1, 1), AnionGcmc(FALSE, k2, 1)>> :
             k1 \in 1..MaxEvery, k2 \in 1..MaxEvery}

\* the lattice of the test, scaled down: both cations, two anions, no vacancy
TestLattice == <<"Mg", "Zn", "O", "O">>

InitRun ==
    /\ log_options = <<>>
    /\ loginterval = 1
    /\ trajectory = None
    /\ file = <<>>
    /\ \/ types = SchedLattice /\ modules \in RunModuleLists
       \/ types = TestLattice /\ modules = TestModules
    /\ energy \in FromAtomsEnergies(types)
    /\ InitCommon

NextRun == Run \/ AtomSwapConstruct \/ PipelineConstruct

SpecRun == InitRun /\ [][NextRun]_vars

\* SpecLog: Pipeline.run with logging, over an empty module list or one
\* grand-canonical protocol, for every log interval.
LogOptionLists ==
    {<<>>, <<"properties.step", "properties.energy">>, <<"properties.global_step">>}

LogModuleLists == {<<>>} \cup {<<AnionGcmc(FALSE, k, 1)>> : k \in 1..MaxEvery}

\* a frame an earlier simulation left in the file at TrajectoryPath
OldFrame ==
    [types |-> SchedLattice, positions |-> [i \in DOMAIN SchedLattice |-> i],
     step |-> 0, energy |-> None]

\* a pipeline constructed with a trajectory path has removed the file; without
\* one, the file at TrajectoryPath is as the earlier simulation left it
InitLog ==
    /\ log_options \in LogOptionLists
    /\ loginterval \in 1..MaxLogInterval
    /\ trajectory \in ConstructTrajectories
    /\ file \in (IF trajectory = None THEN {<<>>, <<OldFrame>>} ELSE {<<>>})
    /\ types = SchedLattice
    /\ modules \in LogModuleLists
    /\ energy \in FromAtomsEnergies(types)
    /\ InitCommon

NextLog == Run \/ PipelineConstruct

SpecLog == InitLog /\ [][NextLog]_vars

\* SpecApi: initialize and State.get called directly, on every lattice and
\* every module list, the protocols not yet initialized.
InitApi ==
    /\ log_options = <<>>
    /\ loginterval = 1
    /\ trajectory = None
    /\ file = <<>>
    /\ types \in [1..NumSites -> Labels]
    /\ energy \in FromAtomsEnergies(types)
    /\ modules \in ModuleLists
    /\ InitCommon

NextApi ==
    \/ \E p \in DOMAIN modules : InitializeCall(p)
    \/ \E option \in GetOptions : GetCall(option)

SpecApi == InitApi /\ [][NextApi]_vars

\* SpecVacancy: the vacancy swap and the grand-canonical protocol of the test
\* sharing a lattice of two anions, for MaxVacancyCalls direct step calls.
VacancyLattice == <<"O", "O">>

InitVacancy ==
    /\ log_options = <<>>
    /\ loginterval = 1
    /\ trajectory = None
    /\ file = <<>>
    /\ types = VacancyLattice
    /\ energy \in FromAtomsEnergies(types)
    /\ modules = <<VacancySwap(1, 1), AnionGcmc(FALSE, 1, 1)>>
    /\ positions = [i \in DOMAIN types |-> i]
    /\ step = 0
    /\ global_step = 0
    /\ pc = Idle
    /\ err = "none"
    /\ last = NoCall
    /\ ncalls = [p \in DOMAIN modules |-> 0]
    /\ raised = FALSE
    /\ budget = MaxVacancyCalls
    /\ logs = <<>>
    /\ built = NoBuild
    /\ vacated = [p \in DOMAIN modules |-> {}]

SpecVacancy == InitVacancy /\ [][Next]_vars

\* ------------------------------------------------------------------ claims
\* a step call has just been made, and its attempt ended as a rejection: by
\* the Metropolis draw ("rejected"), by the exhausted search of the swap
\* ("exhausted") or for lack of an eligible site ("noeligible")
RejectedAttempt ==
    /\ ncalls' # ncalls
    /\ last'.out \in {"rejected", "exhausted", "noeligible"}

MetropolisRejected == ncalls' # ncalls /\ last'.out = "rejected"

\* C1 as stated: every rejected move leaves types, positions and the cached
\* energy exactly as they were before the attempt, whatever the cached energy
\* was, None included.
C1_RevertExact ==
    [][RejectedAttempt =>
          /\ types' = types
          /\ positions' = positions
          /\ energy' = energy]_vars

\* C1 amended: every rejected move leaves types and positions as they were;
\* the cached energy is as it was when it was present or when the move was
\* rejected without an evaluation; a Metropolis rejection that found the
\* cached energy absent leaves the evaluator's energy of the restored
\* configuration in the cache.
C1_RevertExactAmended ==
    [][RejectedAttempt =>
          /\ types' = types
          /\ positions' = positions
          /\ energy' = IF energy = None /\ last'.out = "rejected"
                       THEN Some(ChainEnergy(types, 1))
                       ELSE energy]_vars

\* C1 witness: a removal was rejected by the Metropolis draw and the state
\* holds a cached energy.
C1_Witness ==
    /\ last.op = "removal"
    /\ last.out = "rejected"
    /\ energy # None

\* the most recent step call was made to a grand-canonical protocol and
\* returned (accepted, rejected or without an eligible site)
GcmcStepReturned ==
    /\ last.p \in DOMAIN modules
    /\ modules[last.p].kind = "gcmc"
    /\ last.err = "none"

VacantSites == {i \in DOMAIN types : types[i] = "X"}

\* C2 as stated: after every step of the grand-canonical protocol the sites
\* labelled "X" are exactly the protocol's removed_indices (as a set), also
\* when other protocols share the state.
C2_VacancyConsistent ==
    GcmcStepReturned => VacantSites = Range(modules[last.p].removed_indices)

\* run has returned and no call has raised so far: global_step outer
\* iterations have been completed since the start
RunsCompleted == pc.at = "idle" /\ ~raised

\* C3 as stated: after N outer steps a protocol with invoke_every = k and
\* steps_per_invoke = m has made m * floor(N / k) step calls, and num_invokes
\* is that number.
C3_FloorCount ==
    RunsCompleted =>
        \A p \in DOMAIN modules :
            /\ ncalls[p] = modules[p].steps_per_invoke
                             * (global_step \div modules[p].invoke_every)
            /\ modules[p].num_invokes = ncalls[p]

\* C3 amended: after N outer steps in which no call raised, every protocol
\* has made a multiple of its steps_per_invoke m step calls and its
\* num_invokes is the number of them; a protocol that is the only one of the
\* pipeline, started at properties.step = 0, has made m * ceil(N / k) step
\* calls (it fires on the outer steps 0, k, 2k, ...).
C3_CeilCount ==
    RunsCompleted =>
        /\ \A p \in DOMAIN modules :
              /\ modules[p].num_invokes = ncalls[p]
              /\ ncalls[p] % modules[p].steps_per_invoke = 0
        /\ Len(modules) = 1 =>
              ncalls[1] = modules[1].steps_per_invoke
                            * ((global_step + modules[1].invoke_every - 1)
                                 \div modules[1].invoke_every)

\* C3 witness: a single protocol with invoke_every = 2 has completed one
\* outer step, where floor(1/2) = 0 and ceil(1/2) = 1, and has stepped.
C3_Witness ==
    /\ RunsCompleted
    /\ Len(modules) = 1
    /\ modules[1].invoke_every = 2
    /\ global_step = 1
    /\ ncalls[1] = modules[1].steps_per_invoke

\* C4 as stated: in the first run of a pipeline a protocol fires in exactly
\* the outer iterations whose 0-based counter is a multiple of its own
\* invoke_every, whatever its position in the list.
C4_FiresOnOwnMultiples ==
    (pc.at = "evolve" /\ pc.left = 0 /\ ~raised /\ global_step = pc.i) =>
        (Fires(modules[pc.m]) <=> pc.i % modules[pc.m].invoke_every = 0)

StepsCounted(M) ==
    IF M.kind = "swap"
    THEN M.accepted_swaps + M.rejected_swaps
    ELSE M.accepted_insertions + M.rejected_insertions
           + M.accepted_removals + M.rejected_removals

\* C5 as stated, for the step calls in which the evaluator returns: each step
\* call increments the sum of the protocol's accepted and rejected counters
\* by exactly one, so that the sum stays the number of step calls made.
C5_CounterConservation ==
    [][(ncalls' # ncalls /\ last'.err # "EvaluatorError") =>
          StepsCounted(modules'[last'.p]) = StepsCounted(modules[last'.p]) + 1]_vars

\* C7: a swap step leaves the number of sites and the number of sites of
\* each label as they were, and an accepted swap exchanges the differing
\* labels of two sites and changes no other site.
LabelCount(T, a) == Cardinality({i \in DOMAIN T : T[i] = a})

C7_SwapConservesComposition ==
    [][(ncalls' # ncalls /\ last'.op = "swap") =>
          /\ Len(types') = Len(types)
          /\ \A a \in Labels : LabelCount(types', a) = LabelCount(types, a)
          /\ last'.out = "accepted" =>
                \E i, j \in DOMAIN types :
                    /\ i # j
                    /\ types[i] # types[j]
                    /\ types' = [types EXCEPT ![i] = types[j], ![j] = types[i]]]_vars

\* C7 witness: a swap has been accepted after an earlier step call.
C7_Witness ==
    /\ last.op = "swap"
    /\ last.out = "accepted"
    /\ budget < MaxCalls - 1

\* the most recent step call ended as accepted, rejected, search-exhausted or
\* without an eligible site
StepEnded == last.out \in {"accepted", "rejected", "exhausted", "noeligible"}

\* C8 as stated: at the end of every protocol step the cached energy, when
\* present, is the evaluator's energy of the stored configuration.
C8_CachedEnergyCurrent ==
    (StepEnded /\ energy # None) => energy = Some(ChainEnergy(types, 1))

\* C9 as stated: a step call that the evaluator's failure leaves has left
\* types and the cached energy as they were before the attempt.
C9_EvaluatorFailureReverts ==
    [][(ncalls' # ncalls /\ last'.err = "EvaluatorError") =>
          /\ types' = types
          /\ energy' = energy]_vars

\* the labels held by the sites eligible for the swap protocol M
EligibleLabels(M, T) == {T[i] : i \in AllowedSwap(M, T)}

\* C10 as stated: a swap step on a lattice whose eligible sites hold fewer than
\* two distinct labels is counted in rejected_swaps, and its attempt raises
\* nothing.
C10_LowDiversityRejected ==
    [][(/\ ncalls' # ncalls
        /\ last'.op = "swap"
        /\ Cardinality(EligibleLabels(modules[last'.p], types)) < 2)
       => /\ modules'[last'.p].rejected_swaps = modules[last'.p].rejected_swaps + 1
          /\ last'.err \notin {"ValueError", "AssertionError", "EvaluatorError"}]_vars

\* the module list is the one of the test
IsTestPipeline ==
    /\ Len(modules) = 3
    /\ modules[1].kind = "swap" /\ modules[1].types = {"Mg", "Zn"}
    /\ modules[2].kind = "swap" /\ modules[2].types = {"O", "X"}
    /\ modules[3].kind = "gcmc" /\ modules[3].types = {"O"}

\* C6 as stated: on the test's state and module list no constructor and no
\* run raises an error.
C6_TestPipelineRunsClean == IsTestPipeline => ~raised

\* the step call just made to protocol last'.p, seen from the state before it
SwapCalled == ncalls' # ncalls /\ last'.op = "swap"

GcmcCalled == ncalls' # ncalls /\ last'.op \in {"insertion", "removal"}

\* the tentative configurations the step call just made handed to the evaluator
TentativeEvals == {last'.evals[k].cfg : k \in {n \in DOMAIN last'.evals : last'.evals[n].tentative}}

\* C11: a swap attempt whose search exhausts its 100 draws increments
\* rejected_swaps by one and no other counter, calls the evaluator not at all,
\* and leaves types and the cached energy (None included) as they were.
C11_ExhaustedNoEvaluation ==
    [][(SwapCalled /\ last'.out = "exhausted") =>
          /\ modules'[last'.p].rejected_swaps = modules[last'.p].rejected_swaps + 1
          /\ modules'[last'.p].accepted_swaps = modules[last'.p].accepted_swaps
          /\ last'.evals = <<>>
          /\ types' = types
          /\ energy' = energy]_vars

\* C11 witness: a swap search was exhausted while the cached energy was absent.
C11_Witness ==
    /\ last.op = "swap"
    /\ last.out = "exhausted"
    /\ energy = None

\* C12: every tentative configuration the swap protocol hands to the evaluator
\* is the pre-move sequence with the labels of two distinct eligible sites of
\* differing labels exchanged, and so differs from the pre-move sequence.
C12_NoNoOpSwapEvaluated ==
    [][SwapCalled =>
          \A cfg \in TentativeEvals :
              /\ cfg # types
              /\ \E i, j \in AllowedSwap(modules[last'.p], types) :
                    /\ i # j
                    /\ types[i] # types[j]
                    /\ cfg = SwapLabels(types, i, j)]_vars

\* C12 witness: a swap step has handed a tentative configuration to the
\* evaluator and was rejected by the Metropolis draw.
C12_Witness ==
    /\ last.op = "swap"
    /\ last.out = "rejected"
    /\ \E k \in DOMAIN last.evals : last.evals[k].tentative

\* C13 as stated: no tentative configuration the grand-canonical protocol
\* hands to the evaluator, on the insertion or the removal path, equals the
\* pre-move type sequence.
C13_GcmcNoNoOpEvaluated ==
    [][GcmcCalled => \A cfg \in TentativeEvals : cfg # types]_vars

\* C14: a removal with no site of the chosen species and an insertion with an
\* empty vacancy list increment the matching rejected counter by one and no
\* other counter, call the evaluator not at all, and leave types, the cached
\* energy and the vacancy list as they were; on a lattice without vacancies
\* whose protocols have not stepped yet, an insertion ends this way and a
\* removal does not.
C14_NoEligibleSiteRejected ==
    [][GcmcCalled =>
          /\ last'.out = "noeligible" =>
                /\ modules'[last'.p] =
                      [modules[last'.p] EXCEPT
                          !.num_invokes = @ + 1,
                          !.rejected_removals =
                              IF last'.op = "removal" THEN @ + 1 ELSE @,
                          !.rejected_insertions =
                              IF last'.op = "insertion" THEN @ + 1 ELSE @]
                /\ last'.evals = <<>>
                /\ types' = types
                /\ energy' = energy
          /\ ((\A p \in DOMAIN ncalls : ncalls[p] = 0) /\ NumVacant(types) = 0) =>
                (last'.out = "noeligible" <=> last'.op = "insertion")]_vars

\* C14 witness: a removal found no site of the tracked species.
C14_Witness ==
    /\ last.op = "removal"
    /\ last.out = "noeligible"

\* the energy change the swap step just made computed for its tentative
\* configuration cfg: the evaluator's energy of cfg minus the cached energy,
\* or minus the evaluator's energy of the pre-move configuration when absent
SwapDelta(cfg) ==
    ChainEnergy(cfg, 1) - (IF energy = None THEN ChainEnergy(types, 1) ELSE energy[1])

\* C15: a swap whose evaluations returned an energy change <= 0 is committed
\* whatever the draw: the tentative labels stay, the new energy is cached and
\* accepted_swaps is incremented by one.
C15_DownhillSwapCommitted ==
    [][(SwapCalled /\ last'.err # "EvaluatorError") =>
          \A cfg \in TentativeEvals :
              SwapDelta(cfg) <= 0 =>
                  /\ last'.out = "accepted"
                  /\ types' = cfg
                  /\ energy' = Some(ChainEnergy(cfg, 1))
                  /\ modules'[last'.p].accepted_swaps
                        = modules[last'.p].accepted_swaps + 1
                  /\ modules'[last'.p].rejected_swaps
                        = modules[last'.p].rejected_swaps]_vars

\* C15 witness: a swap with energy change exactly 0 (the evaluator filled the
\* absent cached energy with the energy it then returned for the tentative
\* configuration) was accepted.
C15_Witness ==
    /\ last.op = "swap"
    /\ last.out = "accepted"
    /\ Len(last.evals) = 2
    /\ ChainEnergy(last.evals[1].cfg, 1) = ChainEnergy(last.evals[2].cfg, 1)

\* an evolve call of module pc.m returns in this step
EvolveReturned == pc.at = "evolve" /\ pc.m \in pc'.done

\* C16: every evolve call that returns, fired or not, has increased
\* properties.step by exactly one, and nothing else changes it (a step call
\* that is not the last of its evolve leaves it alone); after runs that
\* completed N outer iterations on P protocols, properties.step, started at 0,
\* is N * P.
C16_StepCountsEvolves ==
    /\ [](RunsCompleted => step = global_step * Len(modules))
    /\ [][/\ EvolveReturned => step' = step + 1
          /\ ~EvolveReturned => step' = step]_vars

\* C16 witness: two protocols, the second with invoke_every = 2, have completed
\* two outer iterations.
C16_Witness ==
    /\ RunsCompleted
    /\ Len(modules) = 2
    /\ modules[2].invoke_every = 2
    /\ global_step = 2
    /\ step = 4

\* C17: global_step changes only at the end of an outer iteration, by exactly
\* one, after the evolve of every protocol has returned in that iteration and
\* together with no step call; a run call that returns has added its number of
\* outer iterations to the global_step it found.
C17_GlobalStepPerOuterIteration ==
    [][/\ global_step' # global_step =>
             /\ global_step' = global_step + 1
             /\ pc.at = "log"
             /\ pc.done = DOMAIN modules
             /\ ncalls' = ncalls
       /\ ncalls' # ncalls => global_step' = global_step
       /\ (pc.at # "idle" /\ pc'.at # "idle") => global_step' = pc.start + pc'.i
       /\ (pc.at # "idle" /\ pc'.at = "idle" /\ err' = "none") =>
             global_step' = pc.start + pc.steps]_vars

\* C17 witness: two run calls that raised nothing have completed two outer
\* iterations between them on a pipeline of two protocols.
C17_Witness ==
    /\ pc.at = "idle"
    /\ ~raised
    /\ ~built.called
    /\ budget = MaxCalls - 2
    /\ Len(modules) = 2
    /\ global_step = 2

\* the field names the protocols of the list expose to the log: the swap
\* protocol's counters
ExposedLogNames(mods) ==
    IF \E p \in DOMAIN mods : mods[p].kind = "swap"
    THEN {"module.swap.accepted_swaps", "module.swap.rejected_swaps"}
    ELSE {}

\* C18 as stated, for the constructions in which no protocol raises: a
\* Pipeline(...) call whose log options hold a name that is neither a base
\* field nor exposed by a protocol fails with the validation error ValueError.
C18_InvalidLogNameRejected ==
    (/\ built.called
     /\ built.err # "AttributeError"
     /\ \E k \in DOMAIN built.opts :
           built.opts[k] \notin BASE_LOGGING_OPTIONS_DICT \cup ExposedLogNames(modules))
    => built.err = "ValueError"

\* C19 as stated: a Pipeline(...) call whose log options hold a field name
\* exposed by one of its protocols succeeds.
C19_ExposedLogNameAccepted ==
    (/\ built.called
     /\ \E k \in DOMAIN built.opts : built.opts[k] \in ExposedLogNames(modules))
    => built.err = "none"

\* C20 as stated: an outer iteration emits one log record exactly when logging
\* is enabled and properties.global_step at that iteration is a multiple of
\* the logging interval, and no record is emitted elsewhere.
C20_LogOnGlobalStepMultiples ==
    [][/\ global_step' # global_step =>
             (Len(logs') = Len(logs) + 1
                <=> (log_options # <<>> /\ global_step % loginterval = 0))
       /\ logs' # logs =>
             (global_step' # global_step /\ Len(logs') = Len(logs) + 1)]_vars

\* a Pipeline(...) call is made in this step (a call that repeats the previous
\* one with the same outcome leaves built as it is)
Constructed == built' # built

\* C21: a Pipeline(...) call that returns with a trajectory path leaves the
\* file without frames; a call that raises or has no path leaves the file
\* alone; every other step leaves the file alone or appends to it one frame
\* holding the current structure, so that the frames written stay in place
\* and in emission order.
C21_TrajectoryAppendOnly ==
    [][/\ (Constructed /\ built'.err = "none" /\ built'.traj # None) => file' = <<>>
       /\ (Constructed /\ ~(built'.err = "none" /\ built'.traj # None)) => file' = file
       /\ ~Constructed =>
             \/ file' = file
             \/ file' = file \o <<[types |-> types, positions |-> positions,
                                  step |-> step, energy |-> energy]>>]_vars

\* C21 witness: two frames have been written after the construction, the
\* second holding a later structure than the first.
C21_Witness ==
    /\ trajectory # None
    /\ Len(file) = 2
    /\ file[1].step < file[2].step

\* C28 as stated: without log options a run emits no record and appends no
\* frame; with log options every step of a run appends as many frames as it
\* emits records.
C28_FramesMatchRecords ==
    [][pc.at # "idle" =>
          /\ log_options = <<>> => (logs' = logs /\ file' = file)
          /\ log_options # <<>> =>
                Len(file') - Len(file) = Len(logs') - Len(logs)]_vars

\* C28 amended: without log options a run emits no record and appends no
\* frame, trajectory path or not; with log options and a trajectory path every
\* step of a run appends as many frames as it emits records; with log options
\* and no trajectory path records are emitted and no frame is appended.
C28_FramesMatchRecordsWithPath ==
    [][pc.at # "idle" =>
          /\ log_options = <<>> => (logs' = logs /\ file' = file)
          /\ (log_options # <<>> /\ trajectory # None) =>
                Len(file') - Len(file) = Len(logs') - Len(logs)
          /\ (log_options # <<>> /\ trajectory = None) => file' = file]_vars

\* C28 witness: with log options, interval 2 and a trajectory path, two outer
\* iterations have emitted one record and appended one frame.
C28_Witness ==
    /\ log_options # <<>>
    /\ trajectory # None
    /\ loginterval = 2
    /\ global_step = 2
    /\ Len(logs) = 1
    /\ Len(file) = 1

\* C22: once a Pipeline has been constructed, initialize has been called
\* exactly once on each protocol of its list, in list order (no evolve call
\* precedes construction: the constructors require that run has not started).
C22_InitializeOncePerProtocol ==
    built.called => built.inits = [k \in 1..Len(modules) |-> k]

\* C23: initialize raises the validation error exactly when the declared
\* species are not all among the labels present on the lattice (for the swap
\* protocol: the present labels and "X"); it raises nothing else, and in
\* either case the system and the properties of the state are unchanged.
C23_InitializeValidation ==
    [][(budget' # budget /\ last'.op = "initialize") =>
          LET M == modules[last'.p]
              present == {types[i] : i \in DOMAIN types}
              allowed == IF M.kind = "swap" THEN present \cup {"X"} ELSE present
          IN  /\ last'.err \in {"none", "ValueError"}
              /\ (last'.err = "ValueError") <=> ~(M.types \subseteq allowed)
              /\ err' = last'.err
              /\ types' = types /\ positions' = positions /\ energy' = energy
              /\ step' = step /\ global_step' = global_step]_vars

\* a swap over a species and "X" has been accepted on a lattice without a
\* vacant site
C23_Witness ==
    /\ last.op = "initialize"
    /\ last.err = "none"
    /\ modules[last.p].kind = "swap"
    /\ "X" \in modules[last.p].types
    /\ NumVacant(types) = 0

\* C24: State.get with a two-part key returns the stored value when the
\* namespace is system or properties and the field is present there, raises
\* the invalid-option error otherwise, and never changes the state.
C24_GetTwoPartKey ==
    [][(budget' # budget /\ last'.op = "get" /\ Len(Split(last'.arg)) = 2) =>
          LET ns == Split(last'.arg)[1]
              field == Split(last'.arg)[2]
              present == \/ ns = "system" /\ field \in DOMAIN System
                         \/ ns = "properties" /\ field \in DOMAIN Properties
          IN  /\ present =>
                    /\ last'.err = "none"
                    /\ last'.out = ToString(IF ns = "system" THEN System[field]
                                            ELSE Properties[field])
              /\ ~present => last'.err = "ValueError" /\ last'.out = "raised"
              /\ types' = types /\ positions' = positions /\ energy' = energy
              /\ step' = step /\ global_step' = global_step
              /\ modules' = modules]_vars

\* get has raised for an absent field of a known namespace
C24_Witness ==
    /\ last.op = "get"
    /\ last.arg = "properties.pressure"
    /\ last.err = "ValueError"
    /\ last.out = "raised"

\* C25: an evolve call of a protocol that does not fire changes only
\* properties.step: types, positions, energy, global_step and every field of
\* the protocol (counters and vacancy list) are unchanged, and no step call
\* is made.
C25_SkippedEvolveFrame ==
    [][(pc.at = "evolve" /\ pc.left = 0 /\ pc' # pc
        /\ step % modules[pc.m].invoke_every # 0) =>
          /\ types' = types /\ positions' = positions /\ energy' = energy
          /\ global_step' = global_step
          /\ modules' = modules
          /\ ncalls' = ncalls
          /\ step' = step + 1]_vars

\* the second protocol of a list has been skipped in the first outer iteration
C25_Witness ==
    /\ pc.at = "log"
    /\ Len(modules) = 2
    /\ pc.done = {1, 2}
    /\ global_step = 0
    /\ ncalls[2] = 0

\* C26: an insertion targets only a site this protocol vacated by an accepted
\* removal and has not refilled by an accepted insertion since, and while the
\* protocol's own vacancy list is empty the insertion is rejected for want of
\* an eligible site, whatever vacancies the lattice holds.
C26_InsertionTargetsOwnVacancy ==
    [][(GcmcCalled /\ last'.op = "insertion") =>
          /\ last'.site # 0 => last'.site \in vacated[last'.p]
          /\ modules[last'.p].removed_indices = <<>> =>
                last'.out = "noeligible" /\ last'.site = 0]_vars

\* C27: a run call whose evaluator returned every time ends without an
\* exception after exactly `steps` outer iterations.
C27_RunCompletesItsIterations ==
    [][(pc.at # "idle" /\ pc'.at = "idle" /\ err' # "EvaluatorError") =>
          /\ err' = "none"
          /\ global_step' = pc.start + pc.steps]_vars
====
